---- MODULE Spec2Model ----
(***************************************************************************)
(* A model of gofer's pending queue (gofer/rmi/store.py), of the proton    *)
(* adapter's reliability decorators (adapter/proton/reliability.py) and of *)
(* the consumer thread (gofer/messaging/consumer.py).                      *)
(*                                                                         *)
(* Each subsystem has its own specification; a specification leaves the    *)
(* variables of the other subsystems at their initial values.              *)
(***************************************************************************)
EXTENDS Integers, Sequences, FiniteSets, TLC

\* ------------------------------------------------------------------ bounds

\* Number of add() calls explored in one behaviour.
MaxAdds == 2
\* Number of process restarts (constructions of the queue on the same ROOT).
MaxRestarts == 1
\* Number of failures (of the wrapped operation or of repair) that one call
\* through a reliability decorator meets.
MaxFaults == 5
\* reliability.py line 32, MAX_RESEND = DAY / RESEND_DELAY (8640 resends),
\* scaled down: the loops only compare the counter with 0.
MAX_RESEND == 3
\* Number of messages the broker delivers to the consumer.
MaxMsgs == 2
\* Number of envelopes queue.get hands to the pending dispatcher.
MaxGot == 3
\* Number of QMF method invocations.
MaxCalls == 2
\* qpid/model.py line 28: the broker's "already exists" error code.
EEXIST == 7

\* ------------------------------------------------------ the pending queue

\* Threads calling into the one PendingQueue instance: thread 1 is the
\* pending dispatcher (it calls get), thread 2 a consumer or executor thread
\* (it calls add and commit).
Procs == {1, 2}
Workers == {2}

\* The wall clock: a window that begins at 1 is future at 0 and open at 1.
Clock == {0, 1}

\* The `wait` arguments given to get: no scan at all, or one scan. A longer
\* wait repeats the scan, as a second get does.
Waits == {0, 1}

\* Serial numbers; the file of an envelope is ROOT/{sn}.
SNs == 1..MaxAdds

\* envelope.window: absent, a window that begins at a clock value, or a
\* value from which Window(...) cannot be built (it raises).
NoWindow == [kind |-> "none", begin |-> 0]
BadWindow == [kind |-> "bad", begin |-> 0]
WindowAt(b) == [kind |-> "at", begin |-> b]
Windows == {NoWindow, BadWindow} \cup {WindowAt(b) : b \in Clock \ {0}}

\* An envelope: `id` stands for the content stamped by add (ts, url, body).
Envelopes == [id : 1..MaxAdds, sn : SNs, window : Windows]
NoEnv == [id |-> 0, sn |-> 0, window |-> NoWindow]

\* A directory entry of ROOT.
NoFile == [kind |-> "none", ctime |-> 0, env |-> NoEnv]
GarbageFile == [kind |-> "garbage", ctime |-> 0, env |-> NoEnv]
EnvFile(c, e) == [kind |-> "env", ctime |-> c, env |-> e]

\* What a thread's last get or commit produced: nothing yet, an envelope,
\* None, or the exception that left the call.
NoResult == [kind |-> "none", env |-> NoEnv]
Returned(e) == [kind |-> "env", env |-> e]
ReturnedNone == [kind |-> "None", env |-> NoEnv]
Raised(x) == [kind |-> x, env |-> NoEnv]

VARIABLES
    pending,      \* PendingQueue.__pending: list of envelopes, index 1 = head
    uncommitted,  \* PendingQueue.__uncommitted: sn -> envelope (NoEnv: no key)
    disk,         \* the directory ROOT: file name (sn) -> file
    fsclock,      \* the filesystem's time, as the number of completed writes
    tracker,      \* Tracker(): sn -> "none" | "tracked" | "cancelled"
    now,          \* the wall clock read by Window.future()
    lock,         \* PendingQueue.__mutex: 0 when free, else the holder
    pc,           \* per thread: the statement it is at
    cur,          \* per thread: the envelope in hand (add, __pop, commit)
    snap,         \* per thread: __get's local `queue` (the copy being popped)
    wait,         \* per thread: __get's local `wait`
    res,          \* per thread: what its last get/commit produced
    nextId,       \* number of add() calls started
    epoch,        \* number of restarts so far
    given,        \* history: id -> the envelope as handed to add (or NoEnv)
    known,        \* history: ids inserted or loaded in this instance
    retCount,     \* history: id -> times get selected it in this instance
    retBefore,    \* history: ids get selected in an earlier instance
    committed     \* history: ids whose commit popped them, this instance

VARIABLES
    rpc,          \* the decorated call: the statement it is at
    rmode,        \* which decorator wraps the operation: reliable | resend
    rrepair,      \* reliable's local `repair`: "noop" | "messenger"
    rretry,       \* resend's local `retry`
    aborted,      \* Thread.aborted(), the process-wide abort flag
    rout,         \* how the decorated call ended
    rlast,        \* what the wrapped operation did when last invoked
    nCalls,       \* history: invocations of the wrapped operation
    nRepair,      \* history: invocations of messenger.repair
    nRepairFail,  \* history: of these, how many raised ConnectionException
    nSleep,       \* history: sleep(DELAY) calls
    nResendSleep, \* history: sleep(RESEND_DELAY) calls
    nConn,        \* history: ConnectionException raised by the operation
    nDetached,    \* history: LinkDetached (not not-found) raised by it
    nReleased     \* history: SendException with state RELEASED raised by it

VARIABLES
    cpc,          \* the consumer thread: the statement it is at
    crun,         \* ConsumerThread._run
    creader,      \* the Reader: "closed" | "open"
    cmsg,         \* the message in hand in _read (0: none)
    nMsgs,        \* messages delivered so far
    disp,         \* history: message -> how its dispatch ended
    acks,         \* history: message -> calls of message.ack()
    rejects,      \* history: message -> calls of _rejected for it
    cdied,        \* an exception has left run()
    copenFailed   \* history: reader.open() has raised

VARIABLES
    mpc,          \* Method.__call__: the statement it is at
    mname,        \* the entity named by the method's arguments
    mconn,        \* the Connection: "none" | "open" | "closed" | "close_failed"
    msess,        \* the session, likewise
    msend,        \* the sender, likewise
    mrecv,        \* the receiver, likewise
    mreply,       \* the broker's reply to the request
    mexc,         \* the exception in flight through the finally clause
    mout,         \* how the invocation ended
    mcalls,       \* invocations started
    mtrace,       \* history: the calls made in the try block, with outcome
    exists        \* broker: the entities that exist

VARIABLES
    dpc,          \* PendingThread.run: the statement it is at
    drun,         \* PendingThread.__run
    denv,         \* the envelope queue.get returned (0: none)
    nGot,         \* envelopes returned by queue.get so far
    dispatched,   \* history: envelope -> calls of dispatch for it
    getsAfterStop,\* history: calls of queue.get made after stop()
    dlate,        \* history: a get returned an envelope after stop()
    dlastGet      \* history: how the last queue.get ended ("": none yet)

qvars == <<pending, uncommitted, disk, fsclock, tracker, now, lock, pc, cur, snap, wait, res, nextId, epoch, given, known, retCount,
           retBefore, committed>>

rvars == <<rpc, rmode, rrepair, rretry, aborted, rout, rlast, nCalls, nRepair,
           nRepairFail, nSleep, nResendSleep, nConn, nDetached, nReleased>>

cvars == <<cpc, crun, creader, cmsg, nMsgs, disp, acks, rejects, cdied,
           copenFailed>>

mvars == <<mpc, mname, mconn, msess, msend, mrecv, mreply, mexc, mout,
           mcalls, mtrace, exists>>

dvars == <<dpc, drun, denv, nGot, dispatched, getsAfterStop, dlate,
          dlastGet>>

vars == <<qvars, rvars, cvars, mvars, dvars>>

\* What a step of one subsystem leaves alone.
QFrame == UNCHANGED <<rvars, cvars, mvars, dvars>>
RFrame == UNCHANGED <<qvars, cvars, mvars, dvars>>
CFrame == UNCHANGED <<qvars, rvars, mvars, dvars>>
MFrame == UNCHANGED <<qvars, rvars, cvars, dvars>>
DFrame == UNCHANGED <<qvars, rvars, cvars, mvars>>

\* ----------------------------------------------------------- list helpers

\* Envelope equality as used by list.remove (Envelope.__eq__): by sn.
EnvEq(a, b) == a.sn = b.sn

\* Whether list.remove(e) finds an element.
Contains(seq, e) == \E i \in 1..Len(seq) : EnvEq(seq[i], e)

\* A remove that leaves the list as it was.
RemoveKeeps(seq, e) == seq

\* list.remove(e): drops the first element equal to e.
Remove(seq, e) ==
    LET i == CHOOSE k \in 1..Len(seq) :
                 /\ EnvEq(seq[k], e)
                 /\ \A j \in 1..(k - 1) : ~EnvEq(seq[j], e)
    IN  SubSeq(seq, 1, i - 1) \o SubSeq(seq, i + 1, Len(seq))

\* list.pop(): the last element; the list without it.
Last(seq) == seq[Len(seq)]
Front(seq) == SubSeq(seq, 1, Len(seq) - 1)

\* ------------------------------------------------ tracker and window (lib)

\* Tracker.cancelled(sn).
Cancelled(sn) == tracker[sn] = "cancelled"

\* Window.future(): the window begins after now.
Future(w) == w.begin > now

\* A __delayed that defers nothing.
DelayedNever(e) ==
    IF e.window.kind = "bad" /\ ~Cancelled(e.sn) THEN "raise" ELSE "no"

\* A __delayed that does not ask the tracker.
DelayedIgnoresCancel(e) ==
    IF e.window.kind # "none"
    THEN IF e.window.kind = "bad" THEN "raise"
         ELSE IF Future(e.window) THEN "yes" ELSE "no"
    ELSE "no"

\* PendingQueue.__delayed: "raise" when Window(envelope.window) raises.
Delayed(e) ==
    IF e.window.kind # "none" /\ ~Cancelled(e.sn)
    THEN IF e.window.kind = "bad" THEN "raise"
         ELSE IF Future(e.window) THEN "yes" ELSE "no"
    ELSE "no"

\* -------------------------------------------------------------- __load

\* The envelopes of the decodable files of ROOT.
Loadable == {s \in SNs : disk[s].kind = "env"}

\* An __import that leaves the file it cannot decode.
ImportKeepsFile(f) == f

\* __import, line 215-223: what is left of a file: one that fails to read
\* or decode is unlinked.
Import(f) == IF f.kind = "env" THEN f ELSE NoFile

\* pending.sort() on (created, envelope) pairs, then the envelopes.
SortedByCreated(S) ==
    CHOOSE seq \in [1..Cardinality(S) -> S] :
        /\ \A i, j \in 1..Cardinality(S) : i # j => seq[i] # seq[j]
        /\ \A i, j \in 1..Cardinality(S) :
               i < j => disk[seq[i]].ctime < disk[seq[j]].ctime

\* A __load that leaves out the newest file.
LoadDropsNewest ==
    [i \in 1..(Cardinality(Loadable) - 1) |->
        disk[SortedByCreated(Loadable)[i]].env]

\* __load, line 192-203: the envelopes of the files, sorted by ctime.
Load == [i \in 1..Cardinality(Loadable) |->
            disk[SortedByCreated(Loadable)[i]].env]

\* ------------------------------------------------------------------ Init

QInit ==
    /\ pending = <<>>
    /\ uncommitted = [s \in SNs |-> NoEnv]
    /\ disk = [s \in SNs |-> NoFile]
    /\ fsclock = 0
    /\ tracker = [s \in SNs |-> "none"]
    /\ now = 0
    /\ lock = 0
    /\ pc = [t \in Procs |-> "idle"]
    /\ cur = [t \in Procs |-> NoEnv]
    /\ snap = [t \in Procs |-> <<>>]
    /\ wait = [t \in Procs |-> 0]
    /\ res = [t \in Procs |-> NoResult]
    /\ nextId = 0
    /\ epoch = 0
    /\ given = [i \in 1..MaxAdds |-> NoEnv]
    /\ known = {}
    /\ retCount = [i \in 1..MaxAdds |-> 0]
    /\ retBefore = {}
    /\ committed = {}

hist == <<given, known, retCount, retBefore, committed>>

\* ------------------------------------------------------------------- add

\* add, line 114-117: stamp the envelope, open(fn, 'w') creates or truncates.
AddOpen(t, sn, w) ==
    /\ pc[t] = "idle"
    /\ nextId < MaxAdds
    /\ nextId' = nextId + 1
    /\ cur' = [cur EXCEPT ![t] = [id |-> nextId + 1, sn |-> sn, window |-> w]]
    /\ given' = [given EXCEPT ![nextId + 1] =
                    [id |-> nextId + 1, sn |-> sn, window |-> w]]
    /\ disk' = [disk EXCEPT ![sn] = GarbageFile]
    /\ pc' = [pc EXCEPT ![t] = "add_write"]
    /\ UNCHANGED <<pending, uncommitted, fsclock, tracker, now, lock, snap, wait, res, epoch, known, retCount, retBefore,
                   committed>>
    /\ QFrame

\* add, line 118: fp.write(envelope.dump()) and close. A file unlinked in
\* between stays out of the directory.
AddWrite(t) ==
    /\ pc[t] = "add_write"
    /\ fsclock' = fsclock + 1
    /\ disk' = IF disk[cur[t].sn].kind = "none" THEN disk
               ELSE [disk EXCEPT ![cur[t].sn] = EnvFile(fsclock + 1, cur[t])]
    /\ pc' = [pc EXCEPT ![t] = "add_insert"]
    /\ UNCHANGED <<pending, uncommitted, tracker, now, lock, cur,
                   snap, wait, res, nextId, epoch, hist>>
    /\ QFrame

\* list.insert(0, e).
InsertHead(seq, e) == <<e>> \o seq

\* An add whose insert shows in the lists the scans are going through, as
\* when __get scanned pending itself.
AddInsertIntoScans(t) ==
    /\ pc[t] = "add_insert"
    /\ lock = 0
    /\ tracker' = [tracker EXCEPT ![cur[t].sn] = "tracked"]
    /\ pending' = InsertHead(pending, cur[t])
    /\ snap' = [u \in Procs |-> IF pc[u] \in {"pop", "pending_commit"}
                                 THEN InsertHead(snap[u], cur[t])
                                 ELSE snap[u]]
    /\ known' = known \cup {cur[t].id}
    /\ pc' = [pc EXCEPT ![t] = "idle"]
    /\ cur' = [cur EXCEPT ![t] = NoEnv]
    /\ UNCHANGED <<uncommitted, disk, fsclock, now, lock,
                   wait, res, nextId, epoch, given, retCount, retBefore,
                   committed>>
    /\ QFrame

\* add, line 120-126: under the lock, tracker.add and pending.insert(0, e).
AddInsert(t) ==
    /\ pc[t] = "add_insert"
    /\ lock = 0
    /\ tracker' = [tracker EXCEPT ![cur[t].sn] = "tracked"]
    /\ pending' = InsertHead(pending, cur[t])
    /\ known' = known \cup {cur[t].id}
    /\ pc' = [pc EXCEPT ![t] = "idle"]
    /\ cur' = [cur EXCEPT ![t] = NoEnv]
    /\ UNCHANGED <<uncommitted, disk, fsclock, now, lock, snap,
                   wait, res, nextId, epoch, given, retCount, retBefore,
                   committed>>
    /\ QFrame

\* ------------------------------------------------------------------- get

\* get, line 137-139: enter __get with the caller's wait.
GetStart(t, w) ==
    /\ pc[t] = "idle"
    /\ wait' = [wait EXCEPT ![t] = w]
    /\ pc' = [pc EXCEPT ![t] = "get_loop"]
    /\ UNCHANGED <<pending, uncommitted, disk, fsclock, tracker, now, lock,
                   cur, snap, res, nextId, epoch, hist>>
    /\ QFrame

\* __copy, line 286-291: a copy of the list, taken under the lock.
Copy(collection) == collection

\* __get, line 233-234: `while wait`, then the snapshot of pending; with
\* wait at 0 the loop ends and __get returns None.
GetScan(t) ==
    /\ pc[t] = "get_loop"
    /\ IF wait[t] = 0
       THEN /\ res' = [res EXCEPT ![t] = ReturnedNone]
            /\ pc' = [pc EXCEPT ![t] = "get_return"]
            /\ UNCHANGED snap
       ELSE /\ lock = 0
            /\ snap' = [snap EXCEPT ![t] = Copy(pending)]
            /\ pc' = [pc EXCEPT ![t] = "pop"]
            /\ UNCHANGED res
    /\ UNCHANGED <<pending, uncommitted, disk, fsclock, tracker, now, lock,
                   cur, wait, nextId, epoch, hist>>
    /\ QFrame

\* __pop, line 254-259 and 263-264: take the tail of the copy and evaluate
\* __delayed on it; __get, line 239-241 when the copy is exhausted.
Pop(t) ==
    /\ pc[t] = "pop"
    /\ IF snap[t] = <<>>
       THEN /\ wait' = [wait EXCEPT ![t] = wait[t] - 1]
            /\ pc' = [pc EXCEPT ![t] = "get_loop"]
            /\ UNCHANGED <<snap, cur>>
       ELSE /\ snap' = [snap EXCEPT ![t] = Front(snap[t])]
            /\ cur' = [cur EXCEPT ![t] = Last(snap[t])]
            /\ pc' = [pc EXCEPT ![t] =
                         CASE Delayed(Last(snap[t])) = "yes" -> "pop"
                           [] Delayed(Last(snap[t])) = "no" -> "pending_commit"
                           [] OTHER -> "purge"]
            /\ UNCHANGED wait
    /\ UNCHANGED <<pending, uncommitted, disk, fsclock, tracker, now, lock,
                   res, nextId, epoch, hist>>
    /\ QFrame

\* __pending_commit, line 180-185 (and __pop, line 261-262): under the lock,
\* pending.remove(envelope), uncommitted[sn] = envelope. remove raises
\* ValueError when the envelope is not in pending: __pop's handler purges.
PendingCommit(t) ==
    /\ pc[t] = "pending_commit"
    /\ lock = 0
    /\ IF Contains(pending, cur[t])
       THEN /\ pending' = Remove(pending, cur[t])
            /\ uncommitted' = [uncommitted EXCEPT ![cur[t].sn] = cur[t]]
            /\ res' = [res EXCEPT ![t] = Returned(cur[t])]
            /\ retCount' = [retCount EXCEPT ![cur[t].id] = @ + 1]
            /\ pc' = [pc EXCEPT ![t] = "get_return"]
       ELSE /\ pc' = [pc EXCEPT ![t] = "purge"]
            /\ UNCHANGED <<pending, uncommitted, res, retCount>>
    /\ UNCHANGED <<disk, fsclock, tracker, now, lock, cur, snap, wait,
                   nextId, epoch, given, known, retBefore, committed>>
    /\ QFrame

\* A __purge that leaves the file in ROOT.
PurgeUnlinkKeepsFile(t) ==
    /\ pc[t] = "purge"
    /\ lock = 0
    /\ lock' = t
    /\ pc' = [pc EXCEPT ![t] = "purge_remove"]
    /\ UNCHANGED <<pending, uncommitted, disk, fsclock, tracker, now, cur,
                   snap, wait, res, nextId, epoch, hist>>
    /\ QFrame

\* __purge, line 165-169: take the lock, os.unlink(fn). OSError (no such
\* file) leaves __purge, __pop and get; the lock is released on the way.
PurgeUnlink(t) ==
    /\ pc[t] = "purge"
    /\ lock = 0
    /\ IF disk[cur[t].sn].kind = "none"
       THEN /\ res' = [res EXCEPT ![t] = Raised("OSError")]
            /\ pc' = [pc EXCEPT ![t] = "get_return"]
            /\ UNCHANGED <<disk, lock>>
       ELSE /\ disk' = [disk EXCEPT ![cur[t].sn] = NoFile]
            /\ lock' = t
            /\ pc' = [pc EXCEPT ![t] = "purge_remove"]
            /\ UNCHANGED res
    /\ UNCHANGED <<pending, uncommitted, fsclock, tracker, now, cur,
                   snap, wait, nextId, epoch, hist>>
    /\ QFrame

\* __purge, line 170-172: pending.remove(envelope), release the lock.
\* ValueError leaves get; otherwise __pop goes on with the copy.
PurgeRemove(t) ==
    /\ pc[t] = "purge_remove"
    /\ lock = t
    /\ lock' = 0
    /\ IF Contains(pending, cur[t])
       THEN /\ pending' = Remove(pending, cur[t])
            /\ pc' = [pc EXCEPT ![t] = "pop"]
            /\ UNCHANGED res
       ELSE /\ res' = [res EXCEPT ![t] = Raised("ValueError")]
            /\ pc' = [pc EXCEPT ![t] = "get_return"]
            /\ UNCHANGED pending
    /\ UNCHANGED <<uncommitted, disk, fsclock, tracker, now, cur,
                   snap, wait, nextId, epoch, hist>>
    /\ QFrame

\* get, line 140-141: finally event.clear(); the call is over.
GetReturn(t) ==
    /\ pc[t] = "get_return"
    /\ pc' = [pc EXCEPT ![t] = "idle"]
    /\ cur' = [cur EXCEPT ![t] = NoEnv]
    /\ snap' = [snap EXCEPT ![t] = <<>>]
    /\ wait' = [wait EXCEPT ![t] = 0]
    /\ res' = [res EXCEPT ![t] = NoResult]
    /\ UNCHANGED <<pending, uncommitted, disk, fsclock, tracker, now, lock,
                   nextId, epoch, hist>>
    /\ QFrame

\* ---------------------------------------------------------------- commit

\* A commit whose pop empties uncommitted.
CommitPopDropsAll(t, sn) ==
    /\ pc[t] = "idle"
    /\ lock = 0
    /\ uncommitted[sn] # NoEnv
    /\ uncommitted' = [s \in SNs |-> NoEnv]
    /\ cur' = [cur EXCEPT ![t] = uncommitted[sn]]
    /\ committed' = committed \cup {uncommitted[sn].id}
    /\ lock' = t
    /\ pc' = [pc EXCEPT ![t] = "commit_unlink"]
    /\ UNCHANGED <<pending, disk, fsclock, tracker, now, snap, wait, res,
                   nextId, epoch, given, known, retCount, retBefore>>
    /\ QFrame

\* commit, line 150-153: take the lock, uncommitted.pop(sn). KeyError
\* leaves commit, releasing the lock.
CommitPop(t, sn) ==
    /\ pc[t] = "idle"
    /\ lock = 0
    /\ IF uncommitted[sn] = NoEnv
       THEN /\ res' = [res EXCEPT ![t] = Raised("KeyError")]
            /\ pc' = [pc EXCEPT ![t] = "commit_return"]
            /\ UNCHANGED <<uncommitted, cur, lock, committed>>
       ELSE /\ uncommitted' = [uncommitted EXCEPT ![sn] = NoEnv]
            /\ cur' = [cur EXCEPT ![t] = uncommitted[sn]]
            /\ committed' = committed \cup {uncommitted[sn].id}
            /\ lock' = t
            /\ pc' = [pc EXCEPT ![t] = "commit_unlink"]
            /\ UNCHANGED res
    /\ UNCHANGED <<pending, disk, fsclock, tracker, now, snap, wait,
                   nextId, epoch, given, known, retCount, retBefore>>
    /\ QFrame

\* A commit that releases the lock without unlinking the file.
CommitKeepsFile(t) ==
    /\ pc[t] = "commit_unlink"
    /\ lock = t
    /\ lock' = 0
    /\ res' = [res EXCEPT ![t] = ReturnedNone]
    /\ pc' = [pc EXCEPT ![t] = "commit_return"]
    /\ UNCHANGED <<pending, uncommitted, disk, fsclock, tracker, now, cur,
                   snap, wait, nextId, epoch, hist>>
    /\ QFrame

\* commit, line 154-157: os.unlink(fn), release the lock.
CommitUnlink(t) ==
    /\ pc[t] = "commit_unlink"
    /\ lock = t
    /\ lock' = 0
    /\ IF disk[cur[t].sn].kind = "none"
       THEN /\ res' = [res EXCEPT ![t] = Raised("OSError")]
            /\ UNCHANGED disk
       ELSE /\ disk' = [disk EXCEPT ![cur[t].sn] = NoFile]
            /\ res' = [res EXCEPT ![t] = ReturnedNone]
    /\ pc' = [pc EXCEPT ![t] = "commit_return"]
    /\ UNCHANGED <<pending, uncommitted, fsclock, tracker, now, cur,
                   snap, wait, nextId, epoch, hist>>
    /\ QFrame

\* A PendingThread.commit without the except clause.
KeyErrorPropagates(r) == r

\* PendingThread.commit, line 344-345: KeyError is logged; anything else
\* raised by queue.commit propagates.
ExceptKeyError(r) == IF r = Raised("KeyError") THEN ReturnedNone ELSE r

\* PendingThread.commit, line 342-345: queue.commit is over, it returned or
\* raised what `res` holds; the except clause applies, and the caller goes
\* on unless an exception leaves PendingThread.commit.
CommitReturn(t) ==
    /\ pc[t] = "commit_return"
    /\ pc' = [pc EXCEPT ![t] = IF ExceptKeyError(res[t]) = ReturnedNone
                                THEN "idle" ELSE "raised"]
    /\ cur' = [cur EXCEPT ![t] = NoEnv]
    /\ res' = [res EXCEPT ![t] = NoResult]
    /\ UNCHANGED <<pending, uncommitted, disk, fsclock, tracker, now, lock,
                   snap, wait, nextId, epoch, hist>>
    /\ QFrame

\* ----------------------------------------------------------- environment

\* The wall clock advances.
Tick ==
    /\ now + 1 \in Clock
    /\ now' = now + 1
    /\ UNCHANGED <<pending, uncommitted, disk, fsclock, tracker, lock, pc, cur, snap, wait, res, nextId, epoch, hist>>
    /\ QFrame

\* Tracker.cancel(sn) by the control path: a tracked sn becomes cancelled.
Cancel(sn) ==
    /\ tracker[sn] = "tracked"
    /\ tracker' = [tracker EXCEPT ![sn] = "cancelled"]
    /\ UNCHANGED <<pending, uncommitted, disk, fsclock, now, lock, pc, cur, snap, wait, res, nextId, epoch, hist>>
    /\ QFrame

\* The process stops at any point and is started again: __init__, line
\* 99-104, with __import (line 215-223) unlinking what does not decode and
\* __load (line 191-205) filling pending from the files that do. The
\* threads and the tracker of the old process are gone.
Restart ==
    /\ epoch < MaxRestarts
    /\ epoch' = epoch + 1
    /\ disk' = [s \in SNs |-> Import(disk[s])]
    /\ pending' = Load
    /\ uncommitted' = [s \in SNs |-> NoEnv]
    /\ tracker' = [s \in SNs |-> "none"]
    /\ lock' = 0
    /\ pc' = [t \in Procs |-> "idle"]
    /\ cur' = [t \in Procs |-> NoEnv]
    /\ snap' = [t \in Procs |-> <<>>]
    /\ wait' = [t \in Procs |-> 0]
    /\ res' = [t \in Procs |-> NoResult]
    /\ known' = {disk[s].env.id : s \in Loadable}
    /\ retBefore' = retBefore \cup {i \in 1..MaxAdds : retCount[i] > 0}
    /\ retCount' = [i \in 1..MaxAdds |-> 0]
    /\ committed' = {}
    /\ UNCHANGED <<fsclock, now, nextId, given>>
    /\ QFrame

\* ------------------------------------------- reliable and resend (proton)

\* What the wrapped operation does when invoked.
FnOutcomes == {"ok", "ConnectionException", "LinkDetached",
               "LinkDetachedNotFound", "SendReleased", "SendRejected"}

\* How the decorated call ended: not yet, with the operation's value, with
\* None, or with an exception leaving the wrapper.
ROutcomes == {"none", "value", "None", "NotFound", "SendException"}

RInit ==
    /\ rpc = "idle"
    /\ rmode = "reliable"
    /\ rrepair = "noop"
    /\ rretry = 0
    /\ aborted = FALSE
    /\ rout = "none"
    /\ rlast = "none"
    /\ nCalls = 0
    /\ nRepair = 0
    /\ nRepairFail = 0
    /\ nSleep = 0
    /\ nResendSleep = 0
    /\ nConn = 0
    /\ nDetached = 0
    /\ nReleased = 0

rhist == <<nCalls, nRepair, nRepairFail, nSleep, nResendSleep, nConn,
           nDetached, nReleased>>

\* Failures met so far by this call.
nFaults == nConn + nDetached + nRepairFail + nReleased

\* A reliable that retries every LinkDetached, not-found included.
ReliableRetriesNotFound(o) ==
    CASE o = "ok" -> "return"
      [] o \in {"ConnectionException", "LinkDetached",
                "LinkDetachedNotFound"} -> "retry"
      [] OTHER -> "raise"

\* reliable, line 44-55: what the try block does with the operation's
\* outcome: return its value, install repair and sleep and loop, raise
\* NotFound, or let the exception through.
Reliable(o) ==
    CASE o = "ok" -> "return"
      [] o \in {"ConnectionException", "LinkDetached"} -> "retry"
      [] o = "LinkDetachedNotFound" -> "notfound"
      [] OTHER -> "raise"

\* A resend that retries every SendException, whatever its state.
ResendRetriesRejected(o) ==
    IF o \in {"SendReleased", "SendRejected"} THEN "resend" ELSE Reliable(o)

\* resend, line 65-73: a released send is slept on and retried; the send's
\* value is returned; anything else leaves the inner function and meets
\* reliable's handlers.
Resend(o) == IF o = "SendReleased" THEN "resend" ELSE Reliable(o)

\* A resend that forgets to count the retry down.
RetryNotCounted(r) == r

\* resend, line 71: retry -= 1.
RetryAfterRelease(r) == r - 1

\* A call through a decorator begins: _fn, line 40 (repair = lambda: None).
RStart(m) ==
    /\ rpc = "idle"
    /\ rmode' = m
    /\ rrepair' = "noop"
    /\ rpc' = "top"
    /\ UNCHANGED <<rretry, aborted, rout, rlast, rhist>>
    /\ RFrame

\* reliable, line 41: while not Thread.aborted(); the loop ended, _fn
\* returns None.
RTop ==
    /\ rpc = "top"
    /\ IF aborted
       THEN rpc' = "done" /\ rout' = "None"
       ELSE rpc' = "repair" /\ UNCHANGED rout
    /\ UNCHANGED <<rmode, rrepair, rretry, aborted, rlast, rhist>>
    /\ RFrame

\* The statement after repair(): the operation itself, which for resend is
\* the inner function (line 62-63: retry = MAX_RESEND).
EnterOperation ==
    IF rmode = "resend"
    THEN rpc' = "inner" /\ rretry' = MAX_RESEND
    ELSE rpc' = "call" /\ UNCHANGED rretry

\* A reliable whose repair() stays the no-op of line 40.
RRepairNeverInvoked(o) ==
    /\ rpc = "repair"
    /\ o = "ok"
    /\ EnterOperation
    /\ UNCHANGED <<rmode, rrepair, aborted, rout, rlast, rhist>>
    /\ RFrame

\* reliable, line 43: repair(), the no-op or messenger.repair. The latter
\* may raise ConnectionException, which line 52-55 handles.
RRepair(o) ==
    /\ rpc = "repair"
    /\ IF rrepair = "noop"
       THEN /\ o = "ok"
            /\ EnterOperation
            /\ UNCHANGED <<rrepair, nRepair, nRepairFail, nSleep>>
       ELSE /\ nRepair' = nRepair + 1
            /\ IF o = "ok"
               THEN /\ EnterOperation
                    /\ UNCHANGED <<rrepair, nRepairFail, nSleep>>
               ELSE /\ nFaults < MaxFaults
                    /\ nRepairFail' = nRepairFail + 1
                    /\ rrepair' = "messenger"
                    /\ nSleep' = nSleep + 1
                    /\ rpc' = "top"
                    /\ UNCHANGED rretry
    /\ UNCHANGED <<rmode, aborted, rout, rlast, nCalls, nResendSleep, nConn,
                   nDetached, nReleased>>
    /\ RFrame

\* What follows the operation's outcome, as `how` classifies it.
AfterOperation(o, how) ==
    CASE how = "return" ->
            /\ rpc' = "done" /\ rout' = "value"
            /\ UNCHANGED <<rrepair, rretry, nSleep, nResendSleep, nConn,
                           nDetached, nReleased>>
      [] how = "retry" ->
            /\ nFaults < MaxFaults
            /\ rrepair' = "messenger"
            /\ nSleep' = nSleep + 1
            /\ nConn' = nConn + (IF o = "ConnectionException" THEN 1 ELSE 0)
            /\ nDetached' = nDetached + (IF o = "ConnectionException" THEN 0 ELSE 1)
            /\ rpc' = "top"
            /\ UNCHANGED <<rout, rretry, nResendSleep, nReleased>>
      [] how = "resend" ->
            /\ nFaults < MaxFaults
            /\ nResendSleep' = nResendSleep + 1
            /\ rretry' = RetryAfterRelease(rretry)
            /\ nReleased' = nReleased + 1
            /\ rpc' = "inner"
            /\ UNCHANGED <<rout, rrepair, nSleep, nConn, nDetached>>
      [] how = "notfound" ->
            /\ rpc' = "done" /\ rout' = "NotFound"
            /\ UNCHANGED <<rrepair, rretry, nSleep, nResendSleep, nConn,
                           nDetached, nReleased>>
      [] OTHER ->
            /\ rpc' = "done" /\ rout' = "SendException"
            /\ UNCHANGED <<rrepair, rretry, nSleep, nResendSleep, nConn,
                           nDetached, nReleased>>

\* reliable, line 44: return fn(messenger, ...), and the handlers.
RCall(o) ==
    /\ rpc = "call"
    /\ nCalls' = nCalls + 1
    /\ rlast' = o
    /\ AfterOperation(o, Reliable(o))
    /\ UNCHANGED <<rmode, aborted, nRepair, nRepairFail>>
    /\ RFrame

\* resend, line 64: while retry > 0; the loop ended, the inner function
\* and with it the decorated call return None.
RInner ==
    /\ rpc = "inner"
    /\ IF rretry > 0
       THEN rpc' = "send" /\ UNCHANGED rout
       ELSE rpc' = "done" /\ rout' = "None"
    /\ UNCHANGED <<rmode, rrepair, rretry, aborted, rlast, rhist>>
    /\ RFrame

\* resend, line 66: return fn(sender, ...), and the handlers of resend and
\* of the enclosing reliable.
RSend(o) ==
    /\ rpc = "send"
    /\ nCalls' = nCalls + 1
    /\ rlast' = o
    /\ AfterOperation(o, Resend(o))
    /\ UNCHANGED <<rmode, aborted, nRepair, nRepairFail>>
    /\ RFrame

\* Thread.abort(): the process-wide flag is raised.
Abort ==
    /\ ~aborted
    /\ aborted' = TRUE
    /\ UNCHANGED <<rpc, rmode, rrepair, rretry, rout, rlast, rhist>>
    /\ RFrame

RNext ==
    \/ \E m \in {"reliable", "resend"} : RStart(m)
    \/ RTop
    \/ \E o \in {"ok", "ConnectionException"} : RRepair(o)
    \/ \E o \in FnOutcomes : RCall(o)
    \/ RInner
    \/ \E o \in FnOutcomes : RSend(o)
    \/ Abort

\* ------------------------------------------------------- ConsumerThread

Msgs == 1..MaxMsgs

CInit ==
    /\ cpc = "start"
    /\ crun = TRUE
    /\ creader = "closed"
    /\ cmsg = 0
    /\ nMsgs = 0
    /\ disp = [m \in Msgs |-> "none"]
    /\ acks = [m \in Msgs |-> 0]
    /\ rejects = [m \in Msgs |-> 0]
    /\ cdied = FALSE
    /\ copenFailed = FALSE

chist == <<disp, acks, rejects>>

\* stop, line 47: another thread clears the run flag.
CStop ==
    /\ crun
    /\ crun' = FALSE
    /\ UNCHANGED <<cpc, creader, cmsg, nMsgs, chist, cdied, copenFailed>>
    /\ CFrame

\* run, line 53-55: the Reader is made and _open is entered.
CRun ==
    /\ cpc = "start"
    /\ cpc' = "open_test"
    /\ UNCHANGED <<crun, creader, cmsg, nMsgs, chist, cdied, copenFailed>>
    /\ CFrame

\* An _open that retries whatever the run flag says.
COpenTestIgnoresStop ==
    /\ cpc = "open_test"
    /\ cpc' = "open_call"
    /\ UNCHANGED <<crun, creader, cmsg, nMsgs, chist, cdied, copenFailed>>
    /\ CFrame

\* _open, line 66: while self._run. Leaving _open leads to the test of
\* run's loop, from run (line 55) as from _read (line 100).
COpenTest ==
    /\ cpc = "open_test"
    /\ cpc' = IF crun THEN "open_call" ELSE "loop_test"
    /\ UNCHANGED <<crun, creader, cmsg, nMsgs, chist, cdied, copenFailed>>
    /\ CFrame

\* An _open that gives up after the first failure.
COpenGivesUp(ok) ==
    /\ cpc = "open_call"
    /\ cpc' = "loop_test"
    /\ IF ok THEN creader' = "open" /\ UNCHANGED copenFailed
             ELSE UNCHANGED creader /\ copenFailed' = TRUE
    /\ UNCHANGED <<crun, cmsg, nMsgs, chist, cdied>>
    /\ CFrame

\* _open, line 67-72: reader.open() and break, or log and sleep(60).
COpen(ok) ==
    /\ cpc = "open_call"
    /\ IF ok
       THEN creader' = "open" /\ cpc' = "loop_test" /\ UNCHANGED copenFailed
       ELSE UNCHANGED creader /\ cpc' = "open_test" /\ copenFailed' = TRUE
    /\ UNCHANGED <<crun, cmsg, nMsgs, chist, cdied>>
    /\ CFrame

\* run, line 57: while self._run; line 59-60 when it is false.
CLoopTest ==
    /\ cpc = "loop_test"
    /\ cpc' = IF crun THEN "next" ELSE "final_close"
    /\ UNCHANGED <<crun, creader, cmsg, nMsgs, chist, cdied, copenFailed>>
    /\ CFrame

\* _read, line 88-90: reader.next(10) times out, returns a message and its
\* document, raises InvalidDocument for a message, or raises otherwise.
CNext(o) ==
    /\ cpc = "next"
    /\ CASE o = "timeout" ->
               /\ cpc' = "loop_test"
               /\ UNCHANGED <<cmsg, nMsgs>>
         [] o = "message" ->
               /\ nMsgs < MaxMsgs
               /\ nMsgs' = nMsgs + 1
               /\ cmsg' = nMsgs + 1
               /\ cpc' = "dispatch"
         [] o = "invalid" ->
               /\ nMsgs < MaxMsgs
               /\ nMsgs' = nMsgs + 1
               /\ cmsg' = nMsgs + 1
               /\ cpc' = "rejected"
         [] OTHER ->
               /\ cpc' = "recover"
               /\ UNCHANGED <<cmsg, nMsgs>>
    /\ UNCHANGED <<crun, creader, chist, cdied, copenFailed>>
    /\ CFrame

\* A _read that acks in a finally clause, whatever dispatch did.
CDispatchAlwaysAcks(o) ==
    /\ cpc = "dispatch"
    /\ disp' = [disp EXCEPT ![cmsg] = o]
    /\ cpc' = "ack"
    /\ UNCHANGED <<crun, creader, cmsg, nMsgs, acks, rejects, cdied, copenFailed>>
    /\ CFrame

\* _read, line 92: dispatch(document) returns, raises InvalidDocument
\* (line 94), or raises otherwise (line 96).
CDispatch(o) ==
    /\ cpc = "dispatch"
    /\ disp' = [disp EXCEPT ![cmsg] = o]
    /\ cpc' = CASE o = "returned" -> "ack"
                [] o = "invalid" -> "rejected"
                [] OTHER -> "recover"
    /\ UNCHANGED <<crun, creader, cmsg, nMsgs, acks, rejects, cdied, copenFailed>>
    /\ CFrame

\* _read, line 93: message.ack() is called; it returns or raises.
CAck(ok) ==
    /\ cpc = "ack"
    /\ acks' = [acks EXCEPT ![cmsg] = @ + 1]
    /\ cpc' = IF ok THEN "loop_test" ELSE "recover"
    /\ cmsg' = IF ok THEN 0 ELSE cmsg
    /\ UNCHANGED <<crun, creader, nMsgs, disp, rejects, cdied, copenFailed>>
    /\ CFrame

\* _read, line 94-95: _rejected(...) is called; it returns, or its
\* exception leaves _read and the loop of run (line 59: finally).
CRejected(ok) ==
    /\ cpc = "rejected"
    /\ rejects' = [rejects EXCEPT ![cmsg] = @ + 1]
    /\ cpc' = IF ok THEN "loop_test" ELSE "final_close"
    /\ cdied' = IF ok THEN cdied ELSE TRUE
    /\ cmsg' = 0
    /\ UNCHANGED <<crun, creader, nMsgs, disp, acks, copenFailed>>
    /\ CFrame

\* An except clause that logs, sleeps and goes on reading.
CRecoverKeepsReader ==
    /\ cpc = "recover"
    /\ cmsg' = 0
    /\ cpc' = "loop_test"
    /\ UNCHANGED <<crun, creader, nMsgs, chist, cdied, copenFailed>>
    /\ CFrame

\* _read, line 96-100: log, sleep(60), _close() (line 78-81: an exception
\* of reader.close() is logged), then _open().
CRecover ==
    /\ cpc = "recover"
    /\ creader' = "closed"
    /\ cmsg' = 0
    /\ cpc' = "open_test"
    /\ UNCHANGED <<crun, nMsgs, chist, cdied, copenFailed>>
    /\ CFrame

\* A _close that lets the exception of reader.close() out of run().
CFinalCloseRaises(ok) ==
    /\ cpc = "final_close"
    /\ creader' = "closed"
    /\ cpc' = "stopped"
    /\ cdied' = IF ok THEN cdied ELSE TRUE
    /\ UNCHANGED <<crun, cmsg, nMsgs, chist, copenFailed>>
    /\ CFrame

\* run, line 59-60: finally self._close(), whose reader.close() returns or
\* raises (line 78-81: the exception is logged); the thread ends.
CFinalClose(ok) ==
    /\ cpc = "final_close"
    /\ creader' = "closed"
    /\ cpc' = "stopped"
    /\ UNCHANGED <<crun, cmsg, nMsgs, chist, cdied, copenFailed>>
    /\ CFrame

\* The steps of the consumer thread itself.
ConsumerThread ==
    \/ CRun
    \/ COpenTest
    \/ \E ok \in BOOLEAN : COpen(ok)
    \/ CLoopTest
    \/ \E o \in {"timeout", "message", "invalid", "raised"} : CNext(o)
    \/ \E o \in {"returned", "invalid", "raised"} : CDispatch(o)
    \/ \E ok \in BOOLEAN : CAck(ok)
    \/ \E ok \in BOOLEAN : CRejected(ok)
    \/ CRecover
    \/ \E ok \in BOOLEAN : CFinalClose(ok)

ConsumerNext ==
    \/ CStop
    \/ ConsumerThread

\* ------------------------------------------------------- QMF Method

Names == {"q1", "q2"}
ErrorCodes == {1, EEXIST, 18}
Texts == {"just failed"}

\* A reply: its qmf.opcode, whether its content holds _values, and the
\* error_code and error_text found there.
Reply(op, v, c, x) == [opcode |-> op, values |-> v, code |-> c, text |-> x]
NoReply == Reply("none", FALSE, 0, "")
Succeeded == {Reply(op, FALSE, 0, "") : op \in {"_method_response", ""}}
Failed == {Reply("_exception", TRUE, c, x) : c \in ErrorCodes, x \in Texts}
Failures(codes) == {r \in Failed : r.code \in codes}

\* What a call ends with: a normal return, Error(description, code), or
\* another exception.
Outcome(k, c, x) == [kind |-> k, code |-> c, text |-> x]
NoOutcome == Outcome("none", 0, "")
Return == Outcome("returned", 0, "")
Error(description, code) == Outcome("Error", code, description)
OtherException == Outcome("exception", 0, "")

\* An on_reply that raises Error for every _exception reply.
OnReplyRaisesExists(reply) ==
    IF reply.opcode # "_exception" THEN Return
    ELSE IF ~reply.values THEN OtherException
    ELSE Error(reply.text, reply.code)

\* An on_reply that reads the body first and takes the code for the text.
OnReplyReadsBodyFirst(reply) ==
    IF ~reply.values THEN OtherException
    ELSE IF reply.opcode # "_exception" \/ reply.code = EEXIST THEN Return
    ELSE Error(reply.text, 0)

\* Method.on_reply, line 98-108.
OnReply(reply) ==
    IF reply.opcode # "_exception" THEN Return
    ELSE IF ~reply.values THEN OtherException
    ELSE IF reply.code = EEXIST THEN Return
    ELSE Error(reply.text, reply.code)

\* The broker's answers to a create request for entity n: done, refused as
\* already existing, or refused for another reason.
BrokerReplies(n) ==
    (IF n \in exists THEN Failures({EEXIST}) ELSE Succeeded)
        \cup Failures(ErrorCodes \ {EEXIST})

\* A call made in the try block of __call__, and whether it returned.
Event(name, ok) == [ev |-> name, ok |-> ok]

MInit ==
    /\ mpc = "idle"
    /\ mname = "q1"
    /\ mconn = "none"
    /\ msess = "none"
    /\ msend = "none"
    /\ mrecv = "none"
    /\ mreply = NoReply
    /\ mexc = NoOutcome
    /\ mout = NoOutcome
    /\ mcalls = 0
    /\ mtrace = <<>>
    /\ exists = {}

\* Exchange.declare / Queue.declare, line 169-170 and 242-243: a Method is
\* made and called; line 117-118: reply_to and the Connection object.
MCall(n) ==
    /\ mpc \in {"idle", "done"}
    /\ mcalls < MaxCalls
    /\ mcalls' = mcalls + 1
    /\ mname' = n
    /\ mpc' = "open"
    /\ mconn' = "none" /\ msess' = "none" /\ msend' = "none" /\ mrecv' = "none"
    /\ mreply' = NoReply /\ mexc' = NoOutcome /\ mout' = NoOutcome
    /\ mtrace' = <<>>
    /\ UNCHANGED exists
    /\ MFrame

\* An exception raised before the try statement leaves __call__ at once.
Escapes ==
    /\ mpc' = "done"
    /\ mout' = OtherException

\* line 119: connection.open().
MOpen(ok) ==
    /\ mpc = "open"
    /\ IF ok THEN mconn' = "open" /\ mpc' = "session" /\ UNCHANGED mout
             ELSE UNCHANGED mconn /\ Escapes
    /\ UNCHANGED <<mname, msess, msend, mrecv, mreply, mexc, mcalls, exists>>
    /\ UNCHANGED mtrace
    /\ MFrame

\* line 120: connection.session().
MSession(ok) ==
    /\ mpc = "session"
    /\ IF ok THEN msess' = "open" /\ mpc' = "sender" /\ UNCHANGED mout
             ELSE UNCHANGED msess /\ Escapes
    /\ UNCHANGED <<mname, mconn, msend, mrecv, mreply, mexc, mcalls, exists>>
    /\ UNCHANGED mtrace
    /\ MFrame

\* line 121: session.sender(ADDRESS).
MSender(ok) ==
    /\ mpc = "sender"
    /\ IF ok THEN msend' = "open" /\ mpc' = "receiver" /\ UNCHANGED mout
             ELSE UNCHANGED msend /\ Escapes
    /\ UNCHANGED <<mname, mconn, msess, mrecv, mreply, mexc, mcalls, exists>>
    /\ UNCHANGED mtrace
    /\ MFrame

\* line 122: session.receiver(reply_to).
MReceiver(ok) ==
    /\ mpc = "receiver"
    /\ IF ok THEN mrecv' = "open" /\ mpc' = "send" /\ UNCHANGED mout
             ELSE UNCHANGED mrecv /\ Escapes
    /\ UNCHANGED <<mname, mconn, msess, msend, mreply, mexc, mcalls, exists>>
    /\ UNCHANGED mtrace
    /\ MFrame

\* An exception raised inside the try statement enters the finally clause.
Finally(x) ==
    /\ mexc' = x
    /\ mpc' = "close_receiver"

\* line 125-131: sender.send(request); the broker acts on the request and
\* its reply is on the way.
MSend(ok) ==
    /\ mpc = "send"
    /\ IF ok
       THEN /\ \E r \in BrokerReplies(mname) :
                 /\ mreply' = r
                 /\ exists' = IF r \in Succeeded THEN exists \cup {mname}
                                                 ELSE exists
            /\ mpc' = "fetch"
            /\ UNCHANGED mexc
       ELSE /\ Finally(OtherException)
            /\ UNCHANGED <<mreply, exists>>
    /\ UNCHANGED <<mname, mconn, msess, msend, mrecv, mout, mcalls>>
    /\ mtrace' = Append(mtrace, Event("send", ok))
    /\ MFrame

\* A try block that inspects the reply before it is acknowledged.
MFetchThenOnReply(ok) ==
    /\ mpc = "fetch"
    /\ IF ok THEN mpc' = "on_reply" /\ UNCHANGED mexc
             ELSE Finally(OtherException)
    /\ UNCHANGED <<mname, mconn, msess, msend, mrecv, mreply, mout, mcalls,
                   exists>>
    /\ mtrace' = Append(mtrace, Event("fetch", ok))
    /\ MFrame

\* line 132: receiver.fetch().
MFetch(ok) ==
    /\ mpc = "fetch"
    /\ IF ok THEN mpc' = "acknowledge" /\ UNCHANGED mexc
             ELSE Finally(OtherException)
    /\ UNCHANGED <<mname, mconn, msess, msend, mrecv, mreply, mout, mcalls,
                   exists>>
    /\ mtrace' = Append(mtrace, Event("fetch", ok))
    /\ MFrame

\* line 133: session.acknowledge().
MAcknowledge(ok) ==
    /\ mpc = "acknowledge"
    /\ IF ok THEN mpc' = "on_reply" /\ UNCHANGED mexc
             ELSE Finally(OtherException)
    /\ UNCHANGED <<mname, mconn, msess, msend, mrecv, mreply, mout, mcalls,
                   exists>>
    /\ mtrace' = Append(mtrace, Event("acknowledge", ok))
    /\ MFrame

\* line 134: self.on_reply(reply); the try statement ends either way.
MOnReply ==
    /\ mpc = "on_reply"
    /\ Finally(IF OnReply(mreply) = Return THEN NoOutcome ELSE OnReply(mreply))
    /\ UNCHANGED <<mname, mconn, msess, msend, mrecv, mreply, mout, mcalls,
                   exists>>
    /\ mtrace' = Append(mtrace, Event("on_reply", OnReply(mreply) = Return))
    /\ MFrame

\* close() of a resource: done, or its exception suppressed.
Closed(ok) == IF ok THEN "closed" ELSE "close_failed"

\* A finally clause in which the exception of receiver.close() gets out.
MCloseReceiverPropagates(ok) ==
    /\ mpc = "close_receiver"
    /\ mrecv' = Closed(ok)
    /\ IF ok THEN mpc' = "close_sender" /\ UNCHANGED <<mexc, mout>>
             ELSE mpc' = "done" /\ mexc' = OtherException
                  /\ mout' = OtherException
    /\ UNCHANGED <<mname, mconn, msess, msend, mreply, mcalls, exists>>
    /\ UNCHANGED mtrace
    /\ MFrame

\* line 136-139: receiver.close().
MCloseReceiver(ok) ==
    /\ mpc = "close_receiver"
    /\ mrecv' = Closed(ok)
    /\ mpc' = "close_sender"
    /\ UNCHANGED <<mname, mconn, msess, msend, mreply, mexc, mout, mcalls,
                   exists>>
    /\ UNCHANGED mtrace
    /\ MFrame

\* line 140-143: sender.close().
MCloseSender(ok) ==
    /\ mpc = "close_sender"
    /\ msend' = Closed(ok)
    /\ mpc' = "close_session"
    /\ UNCHANGED <<mname, mconn, msess, mrecv, mreply, mexc, mout, mcalls,
                   exists>>
    /\ UNCHANGED mtrace
    /\ MFrame

\* line 144-147: session.close(); then the exception in flight, if any,
\* leaves __call__.
MCloseSession(ok) ==
    /\ mpc = "close_session"
    /\ msess' = Closed(ok)
    /\ mpc' = "done"
    /\ mout' = IF mexc = NoOutcome THEN Return ELSE mexc
    /\ UNCHANGED <<mname, mconn, msend, mrecv, mreply, mexc, mcalls, exists>>
    /\ UNCHANGED mtrace
    /\ MFrame

MNext ==
    \/ \E n \in Names : MCall(n)
    \/ \E ok \in BOOLEAN : MOpen(ok)
    \/ \E ok \in BOOLEAN : MSession(ok)
    \/ \E ok \in BOOLEAN : MSender(ok)
    \/ \E ok \in BOOLEAN : MReceiver(ok)
    \/ \E ok \in BOOLEAN : MSend(ok)
    \/ \E ok \in BOOLEAN : MFetch(ok)
    \/ \E ok \in BOOLEAN : MAcknowledge(ok)
    \/ MOnReply
    \/ \E ok \in BOOLEAN : MCloseReceiver(ok)
    \/ \E ok \in BOOLEAN : MCloseSender(ok)
    \/ \E ok \in BOOLEAN : MCloseSession(ok)

\* ------------------------------------------------------- PendingThread

Got == 1..MaxGot

DInit ==
    /\ dpc = "test"
    /\ drun = TRUE
    /\ denv = 0
    /\ nGot = 0
    /\ dispatched = [e \in Got |-> 0]
    /\ getsAfterStop = 0
    /\ dlate = FALSE
    /\ dlastGet = ""

\* PendingThread.stop, line 351.
DStop ==
    /\ drun
    /\ drun' = FALSE
    /\ UNCHANGED <<dpc, denv, nGot, dispatched, getsAfterStop, dlate,
                   dlastGet>>
    /\ DFrame

\* run, line 321 and 326: while self.__run.
DTest ==
    /\ dpc = "test"
    /\ dpc' = IF drun THEN "call_get" ELSE "stopped"
    /\ UNCHANGED <<drun, denv, nGot, dispatched, getsAfterStop, dlate,
                   dlastGet>>
    /\ DFrame

\* run, line 322: self.queue.get(3) is called.
DGetCall ==
    /\ dpc = "call_get"
    /\ dpc' = "in_get"
    /\ getsAfterStop' = getsAfterStop + (IF drun THEN 0 ELSE 1)
    /\ UNCHANGED <<drun, denv, nGot, dispatched, dlate, dlastGet>>
    /\ DFrame

\* A loop that drops what get returned once the thread is stopped.
DGetReturnDropsWhenStopped(o) ==
    /\ dpc = "in_get"
    /\ IF o = "envelope"
       THEN /\ nGot < MaxGot
            /\ nGot' = nGot + 1
            /\ denv' = IF drun THEN nGot + 1 ELSE 0
            /\ dlate' = (dlate \/ ~drun)
            /\ dpc' = IF drun THEN "dispatch" ELSE "test"
       ELSE /\ dpc' = IF o = "none" THEN "test" ELSE "died"
            /\ UNCHANGED <<denv, nGot, dlate>>
    /\ dlastGet' = o
    /\ UNCHANGED <<drun, dispatched, getsAfterStop>>
    /\ DFrame

\* run, line 322-324: queue.get returns an envelope, or nothing and the
\* loop continues, or it raises and the exception ends the thread.
DGetReturn(o) ==
    /\ dpc = "in_get"
    /\ IF o = "envelope"
       THEN /\ nGot < MaxGot
            /\ nGot' = nGot + 1
            /\ denv' = nGot + 1
            /\ dlate' = (dlate \/ ~drun)
            /\ dpc' = "dispatch"
       ELSE /\ dpc' = IF o = "none" THEN "test" ELSE "died"
            /\ UNCHANGED <<denv, nGot, dlate>>
    /\ dlastGet' = o
    /\ UNCHANGED <<drun, dispatched, getsAfterStop>>
    /\ DFrame

\* run, line 325: self.dispatch(envelope) returns, or its exception ends
\* the thread.
DDispatch(ok) ==
    /\ dpc = "dispatch"
    /\ dispatched' = [dispatched EXCEPT ![denv] = @ + 1]
    /\ denv' = 0
    /\ dpc' = IF ok THEN "test" ELSE "died"
    /\ UNCHANGED <<drun, nGot, getsAfterStop, dlate, dlastGet>>
    /\ DFrame

DNext ==
    \/ DStop
    \/ DTest
    \/ DGetCall
    \/ \E o \in {"envelope", "none", "raise"} : DGetReturn(o)
    \/ \E ok \in BOOLEAN : DDispatch(ok)

\* ------------------------------------------------------- specifications

\* The threads that call get: the pending dispatcher thread.
Getters == {1}

\* The program as deployed: every add carries a new sn (the data model's
\* "globally unique per request"), one thread gets.
QNext ==
    \/ \E t \in Workers, w \in Windows : AddOpen(t, nextId + 1, w)
    \/ \E t \in Procs : AddWrite(t)
    \/ \E t \in Procs : AddInsert(t)
    \/ \E t \in Getters, w \in Waits : GetStart(t, w)
    \/ \E t \in Procs : GetScan(t)
    \/ \E t \in Procs : Pop(t)
    \/ \E t \in Procs : PendingCommit(t)
    \/ \E t \in Procs : PurgeUnlink(t)
    \/ \E t \in Procs : PurgeRemove(t)
    \/ \E t \in Procs : GetReturn(t)
    \/ \E t \in Workers, sn \in SNs : CommitPop(t, sn)
    \/ \E t \in Procs : CommitUnlink(t)
    \/ \E t \in Procs : CommitReturn(t)
    \/ Tick
    \/ \E sn \in SNs : Cancel(sn)
    \/ Restart

\* One pending queue shared by several threads: each of them may call get,
\* and add and commit come between their steps.
QRaceNext ==
    \/ \E t \in Procs, w \in Windows : AddOpen(t, nextId + 1, w)
    \/ \E t \in Procs : AddWrite(t)
    \/ \E t \in Procs : AddInsert(t)
    \/ \E t \in Procs, w \in Waits : GetStart(t, w)
    \/ \E t \in Procs : GetScan(t)
    \/ \E t \in Procs : Pop(t)
    \/ \E t \in Procs : PendingCommit(t)
    \/ \E t \in Procs : PurgeUnlink(t)
    \/ \E t \in Procs : PurgeRemove(t)
    \/ \E t \in Procs : GetReturn(t)
    \/ \E t \in Procs, sn \in SNs : CommitPop(t, sn)
    \/ \E t \in Procs : CommitUnlink(t)
    \/ \E t \in Procs : CommitReturn(t)

Init == QInit /\ RInit /\ CInit /\ MInit /\ DInit

SpecQueue == Init /\ [][QNext]_vars

SpecQueueRace == Init /\ [][QRaceNext]_vars

SpecReliable == Init /\ [][RNext]_vars

SpecConsumer == Init /\ [][ConsumerNext]_vars

\* The thread is scheduled, Reader.next returns within its timeout and
\* sleeps end: the thread's next step is eventually taken.
SpecConsumerLive == SpecConsumer /\ WF_vars(ConsumerThread)

SpecMethod == Init /\ [][MNext]_vars

SpecDispatcher == Init /\ [][DNext]_vars


\* ============================================================ the claims

\* Where an envelope of a given id is held.
InPending(i) == \E k \in 1..Len(pending) : pending[k].id = i
InUncommitted(i) == \E s \in SNs : uncommitted[s].id = i
Occurrences(i) ==
    Cardinality({k \in 1..Len(pending) : pending[k].id = i})
    + Cardinality({s \in SNs : uncommitted[s].id = i})
    + (IF i \in committed THEN 1 ELSE 0)

C2_UncommittedReenters ==
    [][epoch' # epoch =>
          \A s \in SNs :
              uncommitted[s] # NoEnv =>
                  \E k \in 1..Len(pending') : pending'[k] = uncommitted[s]]_vars

\* C2 witness: after a restart, get has selected again an envelope that an
\* earlier instance had already handed out.
C2_Witness ==
    /\ epoch > 0
    /\ \E t \in Procs :
          /\ pc[t] = "get_return"
          /\ res[t].kind = "env"
          /\ res[t].env.id \in retBefore

\* C3: whenever get selects an envelope, no entry still to be examined by
\* this scan is dispatchable and has an older file (a smaller ctime).
C3_CtimeOrder ==
    [][\A t \in Procs :
          (pc[t] = "pending_commit" /\ pc'[t] = "get_return") =>
              ~\E k \in 1..Len(snap[t]) :
                    /\ Contains(pending, snap[t][k])
                    /\ Delayed(snap[t][k]) = "no"
                    /\ disk[snap[t][k].sn].ctime < disk[cur[t].sn].ctime]_vars

\* Thread t is about to examine an envelope whose window is still future and
\* whose sn has been cancelled.
ExaminesCancelledFuture(t) ==
    /\ pc[t] = "pop"
    /\ snap[t] # <<>>
    /\ Last(snap[t]).window.kind = "at"
    /\ Future(Last(snap[t]).window)
    /\ Cancelled(Last(snap[t]).sn)

\* C4: a cancelled envelope whose window is future is not skipped by the
\* scan that reaches it: the scan selects it, and get returns it.
C4_CancelledIsServed ==
    [][\A t \in Procs :
          /\ (ExaminesCancelledFuture(t) /\ <<pc[t], snap[t]>>' # <<pc[t], snap[t]>>
                 /\ epoch' = epoch)
                => (pc'[t] = "pending_commit" /\ cur'[t] = Last(snap[t]))
          /\ (pc[t] = "pending_commit" /\ pc'[t] # pc[t] /\ epoch' = epoch)
                => (pc'[t] = "get_return" /\ res'[t] = Returned(cur[t]))]_vars

\* C4 witness: get is returning an envelope whose sn is cancelled and whose
\* window still begins in the future.
C4_Witness ==
    \E t \in Procs :
        /\ pc[t] = "get_return"
        /\ res[t].kind = "env"
        /\ res[t].env.window.kind = "at"
        /\ Future(res[t].env.window)
        /\ Cancelled(res[t].env.sn)

\* The file ROOT/{s} is held by pending, by uncommitted.
SnInPending(s) == \E k \in 1..Len(pending) : pending[k].sn = s
SnInUncommitted(s) == uncommitted[s] # NoEnv

\* An add has written ROOT/{s} and not yet inserted the envelope, or a
\* commit or purge of s is between its two steps.
InProgress(s) ==
    \E t \in Procs :
        /\ cur[t].sn = s
        /\ pc[t] \in {"add_write", "add_insert", "commit_unlink", "purge_remove"}

\* C5 as stated: in every state, intermediate ones included, every file of
\* ROOT belongs to an envelope in exactly one of pending and uncommitted.
C5_EveryFileInExactlyOne ==
    \A s \in SNs :
        disk[s].kind # "none" => (SnInPending(s) /\ ~SnInUncommitted(s))
                                 \/ (~SnInPending(s) /\ SnInUncommitted(s))

\* C5 amended: with distinct sn values, every file of ROOT that no add,
\* commit or purge in progress is working on belongs to an envelope in
\* exactly one of pending and uncommitted.
C5_FileInExactlyOneWhenSettled ==
    \A s \in SNs :
        (disk[s].kind # "none" /\ ~InProgress(s)) =>
            /\ disk[s].kind = "env"
            /\ (SnInPending(s) /\ ~SnInUncommitted(s))
                  \/ (~SnInPending(s) /\ SnInUncommitted(s))

\* C5 witness: no operation is in progress, one file belongs to a pending
\* envelope and another to an uncommitted one.
C5_Witness ==
    /\ \A t \in Procs : pc[t] = "idle"
    /\ \E s1, s2 \in SNs :
          /\ disk[s1].kind = "env" /\ SnInPending(s1)
          /\ disk[s2].kind = "env" /\ SnInUncommitted(s2)

\* Retriable failures met by the call: each one installed repair and slept.
Retried == nConn + nDetached + nRepairFail

\* C6: under reliable, an operation that raised ConnectionException on its
\* first N calls and then succeeded (repair itself not failing) made the
\* wrapper return its value after N+1 invocations and N invocations of
\* messenger.repair; the wrapper returns None only when the abort flag is set.
C6_ReliableRetriesThenReturns ==
    /\ (rpc = "done" /\ rmode = "reliable" /\ rout = "value"
           /\ nDetached = 0 /\ nRepairFail = 0)
          => (nCalls = nConn + 1 /\ nRepair = nConn /\ nSleep = nConn)
    /\ (rpc = "done" /\ rmode = "reliable" /\ rout = "None") => aborted

\* C6 witness: two ConnectionExceptions, then the value, no abort.
C6_Witness ==
    /\ rpc = "done" /\ rmode = "reliable" /\ rout = "value"
    /\ nConn = 2 /\ nDetached = 0 /\ nRepairFail = 0 /\ ~aborted

\* C7: once the operation has failed with link-detached/not-found the call
\* is over with NotFound: that invocation was the last, and every sleep and
\* every repair invocation is accounted for by an earlier retried failure,
\* so that repair is still the no-op when there was none.
C7_NotFoundRaisedAtOnce ==
    rlast = "LinkDetachedNotFound" =>
        /\ rpc = "done" /\ rout = "NotFound"
        /\ nCalls = nConn + nDetached + nReleased + 1
        /\ nSleep = Retried
        /\ nRepair = Retried
        /\ nResendSleep = nReleased
        /\ (Retried = 0 => rrepair = "noop")

\* C7 witness: NotFound raised on the first invocation, repair never set.
C7_Witness ==
    /\ rlast = "LinkDetachedNotFound" /\ rout = "NotFound"
    /\ nCalls = 1 /\ rrepair = "noop" /\ nSleep = 0

\* C8: under resend, a send rejected K times with Released and then
\* accepted (no other failure) returned its value after K+1 invocations, K
\* sleeps of RESEND_DELAY and no other sleep, the retry counter down by K,
\* with K < MAX_RESEND and repair never invoked; and short of an abort the
\* loop gives up only with the counter at 0.
C8_ResendRetriesReleased ==
    /\ (rpc = "done" /\ rmode = "resend" /\ rout = "value"
           /\ Retried = 0)
          => /\ nCalls = nReleased + 1
             /\ nResendSleep = nReleased
             /\ rretry = MAX_RESEND - nReleased
             /\ nReleased < MAX_RESEND
             /\ nRepair = 0 /\ nSleep = 0 /\ rrepair = "noop"
    /\ (rpc = "done" /\ rmode = "resend" /\ rout = "None" /\ ~aborted)
          => rretry = 0

\* C8 witness: two Released rejections, then the send is accepted.
C8_Witness ==
    /\ rpc = "done" /\ rmode = "resend" /\ rout = "value"
    /\ nReleased = 2 /\ Retried = 0

\* C9: every retry iteration observes the abort flag: an iteration of
\* reliable's loop, or of resend's loop after a Released rejection, that
\* begins with the flag set ends the call with None and invokes nothing.
C9_AbortObservedOnEveryIteration ==
    [][/\ (rpc = "top" /\ aborted /\ rpc' # rpc)
             => (rpc' = "done" /\ rout' = "None")
       /\ (rpc = "inner" /\ rretry < MAX_RESEND /\ aborted /\ rpc' # rpc)
             => (rpc' = "done" /\ rout' = "None")]_vars

\* C10: a message is acked at most once and only after its dispatch has
\* returned; and once _read is past a message whose dispatch returned,
\* ack has been called for it exactly once.
C10_AckOnceAfterDispatch ==
    \A m \in Msgs :
        /\ acks[m] <= 1
        /\ acks[m] = 1 => disp[m] = "returned"
        /\ (disp[m] = "returned" /\ ~(cmsg = m /\ cpc = "ack")) => acks[m] = 1

\* C10 witness: one message dispatched and acked, another whose dispatch
\* raised and which was not acked.
C10_Witness ==
    \E m1, m2 \in Msgs :
        /\ disp[m1] = "returned" /\ acks[m1] = 1
        /\ disp[m2] = "raised" /\ acks[m2] = 0

\* C11: a message whose reading or processing raised InvalidDocument has
\* had _rejected called exactly once and has been acked.
C11_InvalidIsRejectedAndAcked ==
    \A m \in Msgs : rejects[m] >= 1 => (rejects[m] = 1 /\ acks[m] = 1)

\* C12: a message whose dispatch raised another exception is never acked;
\* the failing read or dispatch leads to the except clause with the message
\* unacked, the except clause closes the reader and enters _open, the reader
\* stays closed until reader.open() succeeds, and reader.next is only
\* reached with the reader open.
C12_FailureClosesAndReopens ==
    [][/\ \A m \in Msgs : disp'[m] = "raised" => acks'[m] = 0
       /\ (cpc = "dispatch" /\ disp'[cmsg] = "raised") => cpc' = "recover"
       /\ (cpc \in {"next", "dispatch"} /\ cpc' = "recover")
             => UNCHANGED <<acks, nMsgs>>
       /\ (cpc = "recover" /\ cpc' # cpc)
             => (creader' = "closed" /\ cpc' = "open_test")
       /\ cpc' \in {"open_test", "open_call"} => creader' = "closed"
       /\ cpc' = "next" => creader' = "open"]_vars

\* C12 witness: after a dispatch that raised, the reader has been reopened
\* and the next read is due, the failed message still unacked.
C12_Witness ==
    /\ cpc = "next" /\ creader = "open"
    /\ \E m \in Msgs : disp[m] = "raised" /\ acks[m] = 0

\* C13: declaring is idempotent: on_reply raises nothing for a reply that
\* reports the creation done or refused as already existing (error_code 7),
\* the invocation then returns normally, and the refused declaration leaves
\* the broker's entities as they were.
C13_DeclareIsIdempotent ==
    [][/\ (mpc = "on_reply" /\ mreply \in Succeeded \cup Failures({EEXIST}))
             => mexc' = NoOutcome
       /\ (mpc = "close_session" /\ mexc = NoOutcome) => mout' = Return
       /\ (mpc = "send" /\ mname \in exists) => exists' = exists]_vars

\* C13 witness: the second declaration of an entity got "already exists"
\* and returned normally.
C13_Witness ==
    /\ mpc = "done" /\ mcalls = 2 /\ mname \in exists
    /\ mreply \in Failures({EEXIST}) /\ mout = Return

\* C14: on_reply raises nothing for a reply whose opcode is not _exception
\* (whose content holds no _values) and for an _exception reply with
\* error_code 7; for an _exception reply with another code it raises Error
\* with that code and the reply's error_text, which leaves the invocation.
C14_OnReplyClassifies ==
    [][/\ mpc = "on_reply" =>
             /\ mreply.opcode # "_exception" => mexc' = NoOutcome
             /\ (mreply.opcode = "_exception" /\ mreply.code = EEXIST)
                   => mexc' = NoOutcome
             /\ (mreply.opcode = "_exception" /\ mreply.code # EEXIST)
                   => mexc' = Error(mreply.text, mreply.code)
       /\ (mpc = "close_session" /\ mexc.kind = "Error")
             => (mout' = mexc /\ mout'.code = mreply.code
                    /\ mout'.text = mreply.text)]_vars

\* C14 witness: an invocation ended with Error carrying code 18 and the
\* reply's text.
C14_Witness ==
    /\ mpc = "done" /\ mreply.opcode = "_exception"
    /\ mout = Error("just failed", 18)

\* C15: when Method.__call__ has returned or raised, none of the
\* connection, session, sender and receiver it acquired is open.
C15_AllClosedOnExit ==
    mpc = "done" =>
        /\ mconn # "open" /\ msess # "open"
        /\ msend # "open" /\ mrecv # "open"

\* C16: once stop() has cleared the run flag the thread eventually ends;
\* with the flag cleared only a reader.next already under way can still
\* deliver a message, and a thread that has ended has closed the reader.
C16_StopTerminates ==
    /\ (~crun ~> cpc = "stopped")
    /\ [](cpc = "stopped" => creader = "closed")
    /\ [][(~crun /\ cpc # "next") => (nMsgs' = nMsgs /\ cpc' # "next")]_vars

\* C16 witness: stopped after a message was read and the reader was open.
C16_Witness ==
    /\ cpc = "stopped" /\ ~crun /\ ~cdied /\ creader = "closed" /\ nMsgs >= 1

\* C17: constructing the queue unlinks every file that does not decode and
\* keeps it out of pending, and puts the envelope of every file that
\* decodes in pending, the file left in place; a get that returns afterwards
\* returns an envelope whose file decodes.
C17_LoadDiscardsGarbage ==
    [][/\ epoch' # epoch =>
             /\ \A s \in SNs :
                   /\ disk[s].kind = "garbage" =>
                         /\ disk'[s] = NoFile
                         /\ ~\E k \in 1..Len(pending') : pending'[k].sn = s
                   /\ disk[s].kind = "env" =>
                         /\ disk'[s] = disk[s]
                         /\ \E k \in 1..Len(pending') :
                                pending'[k] = disk[s].env
             /\ Len(pending') = Cardinality(Loadable)
       /\ \A t \in Procs :
             (epoch > 0 /\ pc[t] = "pending_commit" /\ pc'[t] = "get_return")
                => (disk[cur[t].sn].kind = "env" /\ res'[t] = Returned(cur[t]))
      ]_vars

\* C17 witness: after a restart that found a garbage file and a valid one,
\* the garbage file is gone and the first get returns the valid envelope.
C17_Witness ==
    /\ epoch = 1
    /\ \E i, j \in 1..MaxAdds :
          /\ given[i] # NoEnv /\ given[i].window.kind # "bad"
          /\ i \notin known /\ i \notin retBefore
          /\ disk[given[i].sn] = NoFile
          /\ j \in known /\ j \notin retBefore /\ retCount[j] = 1
          /\ \E t \in Procs : res[t] = Returned(given[j])

\* The window of e begins in the future and its sn is not cancelled.
StillFuture(e) ==
    e.window.kind = "at" /\ Future(e.window) /\ ~Cancelled(e.sn)

\* C18: get never returns an envelope whose window is still future and
\* whose sn is not cancelled; the scan that reaches such an envelope goes on
\* to the next, pending, uncommitted and the files untouched; the scan that
\* reaches an envelope whose window has opened selects it; and commit's
\* unlink leaves no file for the sn.
C18_FutureWindowIsDeferred ==
    [][\A t \in Procs :
          /\ (pc[t] = "pending_commit" /\ pc'[t] = "get_return")
                => (~StillFuture(cur[t]) /\ res'[t] = Returned(cur[t]))
          /\ (pc[t] = "pop" /\ snap[t] # <<>> /\ snap'[t] # snap[t]
                 /\ epoch' = epoch /\ StillFuture(Last(snap[t])))
                => /\ pc'[t] = "pop"
                   /\ UNCHANGED <<pending, uncommitted, disk>>
                   /\ Contains(pending, Last(snap[t]))
                         => disk[Last(snap[t]).sn].kind = "env"
          /\ (pc[t] = "pop" /\ snap[t] # <<>> /\ snap'[t] # snap[t]
                 /\ epoch' = epoch /\ Last(snap[t]).window.kind = "at"
                 /\ ~Future(Last(snap[t]).window))
                => (pc'[t] = "pending_commit" /\ cur'[t] = Last(snap[t]))
          /\ (pc[t] = "commit_unlink" /\ pc'[t] # pc[t] /\ epoch' = epoch)
                => disk'[cur[t].sn] = NoFile]_vars

\* C18 witness: an envelope with a window, never cancelled, was returned
\* once its window had opened and committed; its file is gone.
C18_Witness ==
    \E i \in committed :
        /\ given[i].window.kind = "at"
        /\ ~Future(given[i].window)
        /\ ~Cancelled(given[i].sn)
        /\ disk[given[i].sn] = NoFile

\* C19: a commit that finds its sn in uncommitted removes that entry alone
\* and then unlinks that file alone, pending untouched, and nothing else
\* touches pending or uncommitted in between; a commit whose sn is not in
\* uncommitted raises KeyError with pending, uncommitted and the files
\* untouched.
C19_CommitFrame ==
    [][\A t \in Procs :
          /\ (pc[t] = "idle" /\ pc'[t] = "commit_unlink")
                => /\ uncommitted[cur'[t].sn] = cur'[t]
                   /\ uncommitted' = [uncommitted EXCEPT ![cur'[t].sn] = NoEnv]
                   /\ UNCHANGED <<pending, disk>>
          /\ (pc[t] = "commit_unlink" /\ pc'[t] = pc[t] /\ epoch' = epoch)
                => UNCHANGED <<pending, uncommitted>>
          /\ (pc[t] = "commit_unlink" /\ pc'[t] = "commit_return")
                => /\ disk[cur[t].sn] # NoFile
                   /\ disk' = [disk EXCEPT ![cur[t].sn] = NoFile]
                   /\ res'[t] = ReturnedNone
                   /\ UNCHANGED <<pending, uncommitted>>
          /\ (pc[t] = "idle" /\ pc'[t] = "commit_return")
                => /\ \E s \in SNs : uncommitted[s] = NoEnv
                   /\ res'[t] = Raised("KeyError")
                   /\ UNCHANGED <<pending, uncommitted, disk>>]_vars

\* C19 witness: a commit has removed its entry and unlinked its file while
\* another envelope stays uncommitted, its file in place.
C19_Witness ==
    \E t \in Procs, s \in SNs :
        /\ pc[t] = "commit_return" /\ res[t] = ReturnedNone
        /\ disk[cur[t].sn] = NoFile /\ uncommitted[cur[t].sn] = NoEnv
        /\ s # cur[t].sn /\ uncommitted[s] # NoEnv /\ disk[s].kind = "env"

\* C20: PendingThread.commit returns normally when queue.commit returned or
\* raised KeyError; an sn already committed is no longer in uncommitted, so
\* that committing it again raises KeyError in queue.commit; and a commit
\* that does changes neither pending, nor uncommitted, nor the files.
C20_ThreadCommitIdempotent ==
    /\ [](\A i \in committed : uncommitted[given[i].sn] = NoEnv)
    /\ [][\A t \in Procs :
             /\ (pc[t] = "commit_return" /\ pc'[t] # pc[t] /\ epoch' = epoch
                    /\ res[t] \in {ReturnedNone, Raised("KeyError")})
                   => /\ pc'[t] = "idle"
                      /\ UNCHANGED <<pending, uncommitted, disk>>
             /\ (pc[t] = "idle" /\ pc'[t] = "commit_return")
                   => UNCHANGED <<pending, uncommitted, disk>>]_vars

\* C20 witness: every sn has been committed and one more commit is about to
\* return from PendingThread.commit, queue.commit having raised KeyError.
C20_Witness ==
    \E t \in Procs :
        /\ pc[t] = "commit_return" /\ res[t] = Raised("KeyError")
        /\ committed = 1..MaxAdds
        /\ \A s \in SNs : disk[s] = NoFile

\* C21: a call under resend that ends with a normal return (the send's
\* value, or None) without the thread being aborted ends so because the
\* last send returned.
C21_NormalReturnMeansAccepted ==
    (rpc = "done" /\ rmode = "resend" /\ ~aborted
        /\ rout \in {"value", "None"}) => rlast = "ok"

\* C22: within one call under resend the send is not invoked again once
\* more than MAX_RESEND Released rejections have been met.
C22_ReleasedRetriesBounded ==
    (rmode = "resend" /\ rpc = "send") => nReleased <= MAX_RESEND

\* C23: once the send has failed with a state other than Released the call
\* is over with that SendException: that invocation was the last, every
\* sleep, repair and decrement of the retry counter is accounted for by an
\* earlier failure, and repair is still the no-op when there was none.
C23_RejectedPropagatesAtOnce ==
    rlast = "SendRejected" =>
        /\ rpc = "done" /\ rout = "SendException"
        /\ nCalls = nConn + nDetached + nReleased + 1
        /\ nResendSleep = nReleased
        /\ nSleep = Retried
        /\ nRepair = Retried
        /\ (Retried = 0 => rrepair = "noop")
        /\ (rmode = "resend" /\ Retried = 0)
              => rretry = MAX_RESEND - nReleased

\* C23 witness: under resend, one Released rejection, then a rejection
\* with another state has left the wrapper.
C23_Witness ==
    /\ rmode = "resend" /\ rlast = "SendRejected" /\ rout = "SendException"
    /\ nReleased = 1 /\ Retried = 0 /\ nCalls = 2

\* C24: every way out of the try statement leads to receiver.close(), then
\* sender.close(), then session.close(), each called once on a resource
\* still open and touching nothing else; whether a close raises or not, the
\* exception in flight is left as the try block set it, and the invocation
\* ends with it, or returns when there is none.
C24_ClosesInOrderSuppressed ==
    [][/\ mpc \in {"send", "fetch", "acknowledge", "on_reply"}
             => mpc' \in {"fetch", "acknowledge", "on_reply", "close_receiver"}
       /\ mpc = "close_receiver"
             => /\ mrecv = "open" /\ mrecv' \in {"closed", "close_failed"}
                /\ mpc' = "close_sender"
                /\ UNCHANGED <<mconn, msess, msend, mexc, mout>>
       /\ mpc = "close_sender"
             => /\ msend = "open" /\ msend' \in {"closed", "close_failed"}
                /\ mpc' = "close_session"
                /\ UNCHANGED <<mconn, msess, mrecv, mexc, mout>>
       /\ mpc = "close_session"
             => /\ msess = "open" /\ msess' \in {"closed", "close_failed"}
                /\ mpc' = "done"
                /\ UNCHANGED <<mconn, msend, mrecv, mexc>>
                /\ mout' = IF mexc = NoOutcome THEN Return ELSE mexc]_vars

\* C24 witness: all three closes raised and the invocation returned.
C24_Witness ==
    /\ mpc = "done" /\ mout = Return
    /\ mrecv = "close_failed" /\ msend = "close_failed"
    /\ msess = "close_failed"

\* C25: an envelope in uncommitted is not in pending; an entry of
\* uncommitted is emptied only by the pop of a commit for it or by a
\* restart; and the envelope get returns was not in uncommitted when
\* the scan selected it for return.
C25_UncommittedLeavesByCommit ==
    /\ [](\A s \in SNs : uncommitted[s] # NoEnv
                            => ~Contains(pending, uncommitted[s]))
    /\ [][/\ \A s \in SNs :
                (uncommitted[s] # NoEnv /\ uncommitted'[s] # uncommitted[s])
                   => \/ epoch' # epoch
                      \/ \E t \in Procs : /\ pc[t] = "idle"
                                          /\ pc'[t] = "commit_unlink"
                                          /\ cur'[t] = uncommitted[s]
          /\ \A t \in Procs :
                (pc[t] = "pending_commit" /\ pc'[t] = "get_return")
                   => (uncommitted[cur[t].sn] = NoEnv
                          /\ uncommitted'[cur[t].sn] = cur[t])]_vars

\* C25 witness: one envelope stays uncommitted while get returns another.
C25_Witness ==
    \E t \in Procs, s \in SNs :
        /\ pc[t] = "get_return" /\ res[t].kind = "env"
        /\ s # res[t].env.sn /\ uncommitted[s] # NoEnv
        /\ uncommitted[res[t].env.sn] = res[t].env

\* Thread u is in a scan: it holds a snapshot and is examining or moving
\* an envelope.
Scanning(u) == pc[u] \in {"pop", "pending_commit"}

\* C26: the insert of an add made while a scan is running puts the
\* envelope in pending and leaves the scan's snapshot and its selected
\* envelope as they were, the new envelope being in neither; a scan only
\* ever shortens its snapshot and selects from it; and the move of the
\* selected envelope takes nothing else out of pending.
C26_AddDoesNotDisturbScan ==
    [][/\ \A t \in Procs :
             (pc[t] = "add_insert" /\ pc'[t] = "idle" /\ epoch' = epoch)
                => /\ Contains(pending', cur[t])
                   /\ \A u \in Procs : Scanning(u) =>
                         /\ snap'[u] = snap[u] /\ cur'[u] = cur[u]
                         /\ pc'[u] = pc[u]
                         /\ ~Contains(snap[u], cur[t])
                         /\ ~EnvEq(cur[u], cur[t])
       /\ \A u \in Procs :
             (Scanning(u) /\ Scanning(u)' /\ epoch' = epoch)
                => /\ snap'[u] \in {snap[u], Front(snap[u])}
                   /\ \/ cur'[u] = cur[u]
                      \/ snap[u] # <<>> /\ cur'[u] = Last(snap[u])
       /\ \A u \in Procs :
             (pc[u] = "pending_commit" /\ pc'[u] = "get_return")
                => \A k \in 1..Len(pending) :
                      ~EnvEq(pending[k], cur[u])
                         => Contains(pending', pending[k])]_vars

\* C26 witness: the scan has gone through its snapshot and selected the
\* older envelope; the newer one, inserted since, heads pending.
C26_Witness ==
    \E u \in Procs :
        /\ epoch = 0 /\ pc[u] = "pending_commit" /\ snap[u] = <<>>
        /\ Len(pending) = 2 /\ pending[2] = cur[u]
        /\ pending[1].window = NoWindow /\ cur[u].window = NoWindow

\* The state of the consumer's state machine the thread is in.
Phase(at) ==
    CASE at = "start" -> "Starting"
      [] at \in {"open_test", "open_call"} -> "Opening"
      [] at = "final_close" -> "Draining"
      [] at = "stopped" -> "Stopped"
      [] OTHER -> "Running"

\* The transitions of the state machine (Running goes back to Opening
\* after an exception).
PhaseSteps ==
    {<<"Starting", "Opening">>, <<"Opening", "Running">>,
     <<"Running", "Opening">>, <<"Running", "Draining">>,
     <<"Draining", "Stopped">>}

\* C27: the thread moves along Starting, Opening, Running, Draining,
\* Stopped; a reader.open() that raises leads back to the test of the run
\* flag, which leads to another reader.open() unless the flag is cleared;
\* and reader.next is only called with the reader open, that is after an
\* open that succeeded and no close since.
C27_OpenRetriedNextOnlyWhenOpen ==
    /\ [](cpc = "next" => creader = "open")
    /\ [][/\ Phase(cpc') # Phase(cpc)
                => <<Phase(cpc), Phase(cpc')>> \in PhaseSteps
          /\ (cpc = "open_call" /\ cpc' # cpc)
                => \/ creader' = "open" /\ cpc' = "loop_test"
                   \/ creader' = "closed" /\ cpc' = "open_test"
          /\ (cpc = "open_test" /\ cpc' # cpc)
                => cpc' = IF crun THEN "open_call" ELSE "loop_test"
          /\ (creader = "closed" /\ creader' = "open")
                => cpc = "open_call"]_vars

\* C27 witness: reader.open() has raised, a later one succeeded, and
\* reader.next is about to be called.
C27_Witness ==
    cpc = "next" /\ creader = "open" /\ copenFailed /\ nMsgs = 0

\* C28: the thread ends only through the _close of run's finally clause,
\* after stop or after an exception left the loop; that step leaves the
\* reader closed whether reader.close() raised or not and adds no exception
\* of its own; a thread that has ended has no open reader.
C28_CloseOnEveryExit ==
    /\ [](cpc = "stopped" => creader = "closed")
    /\ [](cpc = "final_close" => (~crun \/ cdied))
    /\ [][/\ (cpc' = "stopped" /\ cpc # "stopped") => cpc = "final_close"
          /\ (cpc = "final_close" /\ cpc' # cpc)
                => (cpc' = "stopped" /\ creader' = "closed"
                       /\ cdied' = cdied)
          /\ cpc = "stopped" => (cpc' = "stopped" /\ creader' = creader)]_vars

\* C28 witness: an exception left the loop with the reader open and the
\* run flag set; the thread has ended with the reader closed.
C28_Witness ==
    cpc = "stopped" /\ cdied /\ crun /\ creader = "closed" /\ nMsgs >= 1

\* C29: dispatch is called only with an envelope in hand; every envelope
\* queue.get has returned has been dispatched exactly once, but for the one
\* in hand, which has not been yet; at most one get is called after
\* stop(); and the loop ends only with the run flag cleared.
C29_DispatchOncePerEnvelope ==
    /\ (dpc = "dispatch") = (denv # 0)
    /\ dpc = "dispatch" => dlastGet = "envelope"
    /\ \A e \in Got :
          dispatched[e] = IF e <= nGot /\ e # denv THEN 1 ELSE 0
    /\ getsAfterStop <= 1
    /\ dpc = "stopped" => ~drun

\* C29 witness: the get called after stop() returned an envelope, it was
\* dispatched, and the loop has ended.
C29_Witness ==
    /\ dpc = "stopped" /\ dlate /\ getsAfterStop = 1
    /\ nGot >= 1 /\ \A e \in 1..nGot : dispatched[e] = 1

\* The window of e cannot be evaluated and the tracker does not spare it
\* the evaluation.
Unevaluable(e) == e.window = BadWindow /\ tracker[e.sn] # "cancelled"

\* e is dispatchable now.
Ready(e) ==
    \/ tracker[e.sn] = "cancelled"
    \/ e.window = NoWindow
    \/ e.window.kind = "at" /\ e.window.begin <= now

\* C30: a scan that takes an entry whose window cannot be evaluated purges
\* it: the file is unlinked, then the entry leaves pending, nothing is
\* returned or put in uncommitted on the way, and the scan goes on with the
\* rest of its copy, where a ready entry is selected; the purge never fails
\* for want of the file or of the entry.
C30_CorruptEntryPurged ==
    /\ [](\A t \in Getters :
            /\ pc[t] = "purge" => disk[cur[t].sn].kind = "env"
            /\ pc[t] = "purge_remove" =>
                  /\ Contains(pending, cur[t])
                  /\ disk[cur[t].sn] = NoFile
                  /\ uncommitted[cur[t].sn] = NoEnv)
    /\ [][\A t \in Getters :
            /\ (pc[t] = "pop" /\ snap[t] # <<>> /\ snap'[t] # snap[t]
                  /\ epoch' = epoch) =>
                  /\ snap'[t] = Front(snap[t])
                  /\ Unevaluable(Last(snap[t])) =>
                        /\ pc'[t] = "purge"
                        /\ cur'[t] = Last(snap[t])
                        /\ UNCHANGED <<pending, uncommitted, res, retCount>>
                  /\ Ready(Last(snap[t])) =>
                        /\ pc'[t] = "pending_commit"
                        /\ cur'[t] = Last(snap[t])
            /\ (pc[t] = "purge" /\ pc'[t] # pc[t] /\ epoch' = epoch) =>
                  /\ pc'[t] = "purge_remove"
                  /\ disk'[cur[t].sn] = NoFile
                  /\ UNCHANGED <<pending, uncommitted, res, retCount, cur,
                                 snap>>
            /\ (pc[t] = "purge_remove" /\ pc'[t] # pc[t]
                  /\ epoch' = epoch) =>
                  /\ pc'[t] = "pop"
                  /\ ~Contains(pending', cur[t])
                  /\ Len(pending') = Len(pending) - 1
                  /\ UNCHANGED <<uncommitted, disk, res, retCount, cur,
                                 snap>>]_vars

\* C30 witness: the scan has purged an entry whose window cannot be
\* evaluated, and its copy holds a ready entry to go on with.
C30_Witness ==
    \E t \in Getters :
        /\ pc[t] = "pop"
        /\ Unevaluable(cur[t])
        /\ ~Contains(pending, cur[t])
        /\ disk[cur[t].sn] = NoFile
        /\ uncommitted[cur[t].sn] = NoEnv
        /\ retCount[cur[t].id] = 0
        /\ snap[t] # <<>>
        /\ Ready(Last(snap[t]))
        /\ Contains(pending, Last(snap[t]))

\* C31: with several threads calling add, get and commit, every envelope in
\* uncommitted has its file in ROOT, and so has every envelope in pending
\* while no thread holds the lock; the file of an envelope whose window can
\* be evaluated is removed only by the unlink of a commit of that envelope.
C31_FileRemovedOnlyByCommit ==
    /\ [](\A sn \in SNs : uncommitted[sn] # NoEnv => disk[sn].kind = "env")
    /\ [](lock = 0 =>
            \A i \in 1..Len(pending) : disk[pending[i].sn].kind = "env")
    /\ [][\A sn \in SNs :
            (/\ disk[sn].kind = "env"
             /\ disk[sn].env.window # BadWindow
             /\ disk'[sn] = NoFile) =>
                \E t \in Procs : /\ pc[t] = "commit_unlink"
                                 /\ cur[t].sn = sn
                                 /\ pc'[t] = "commit_return"]_vars

\* C32: with several threads calling get, every get ends by returning an
\* envelope or None, never with an exception, and no envelope is selected
\* by two of them.
C32_ConcurrentGetsComplete ==
    /\ \A t \in Procs :
          pc[t] = "get_return" => res[t].kind \in {"env", "None"}
    /\ \A i \in 1..MaxAdds : retCount[i] <= 1

\* C33: the consumer thread is past its read loop only when stop() has
\* cleared the run flag, and no exception has left run().
C33_LoopLeftOnlyAfterStop ==
    /\ cpc \in {"final_close", "stopped"} => ~crun
    /\ ~cdied

\* The calls of the try block of __call__, in the order of the text.
TryOrder == <<"send", "fetch", "acknowledge", "on_reply">>

\* C34: the calls made in an invocation are send, fetch, acknowledge and
\* on_reply in this order, each made once and only after the one before it
\* returned; once fetch has returned a reply, acknowledge is the next call
\* made; and when on_reply raised Error, acknowledge had returned before.
C34_AcknowledgeBeforeOnReply ==
    /\ Len(mtrace) <= Len(TryOrder)
    /\ \A i \in 1..Len(mtrace) :
          /\ mtrace[i].ev = TryOrder[i]
          /\ i < Len(mtrace) => mtrace[i].ok
    /\ (Len(mtrace) = 2 /\ mtrace[2].ok) => mpc = "acknowledge"
    /\ mpc = "on_reply" => (Len(mtrace) = 3 /\ mtrace[3].ok)
    /\ (mexc.kind = "Error" \/ mout.kind = "Error") =>
          /\ Len(mtrace) = 4
          /\ mtrace[3] = Event("acknowledge", TRUE)
          /\ mtrace[4] = Event("on_reply", FALSE)

\* C34 witness: an invocation has ended with Error raised by on_reply,
\* after send, fetch and acknowledge.
C34_Witness ==
    /\ mpc = "done"
    /\ mout.kind = "Error"
    /\ mtrace = <<Event("send", TRUE), Event("fetch", TRUE),
                  Event("acknowledge", TRUE), Event("on_reply", FALSE)>>

====
